---- MODULE Spec2Model ----
(***************************************************************************)
(* The HTTP service of src/main.rs: an actix-web App with four routes      *)
(*   GET  /            -> "Hello World!"                                   *)
(*   GET  /users       -> get_json_data                                    *)
(*   GET  /users/{id}  -> get_user   (extractor web::Path<(u32,)>)         *)
(*   POST /users       -> post_json  (extractor web::Json<Info>)           *)
(* wrapped in the Logger middleware.                                       *)
(*                                                                         *)
(* Texts that the program inspects character by character (path segments,  *)
(* JSON string literals, the texts it serialises) are sequences of         *)
(* one-character strings; finished response bodies are strings.            *)
(***************************************************************************)
EXTENDS Integers, Sequences, FiniteSets, TLC

(***************************************************************************)
(* Bounds of the model.                                                    *)
(***************************************************************************)
\* number of requests that can be in flight at once (worker connections)
MaxInFlight == 2
\* longest generated path segment put in place of {id}
MaxSegLen == 2
\* longest generated JSON string literal, in tokens
MaxNameLen == 2
\* longest generated JSON array body
MaxArrayLen == 2

(***************************************************************************)
(* Characters and joining.                                                 *)
(***************************************************************************)
Digits == <<"0", "1", "2", "3", "4", "5", "6", "7", "8", "9">>

IsDigit(c) == \E i \in 1..10 : Digits[i] = c

\* char::to_digit(10)
DigitVal(c) == (CHOOSE i \in 1..10 : Digits[i] = c) - 1

RECURSIVE Join(_)
\* the string made of the characters (or tokens) of a sequence
Join(cs) == IF cs = <<>> THEN "" ELSE Head(cs) \o Join(Tail(cs))

(***************************************************************************)
(* u32.  A value is kept as two decimal limbs, val = hi * Limb + lo, so    *)
(* that the full 32-bit range 0 .. 4294967295 is represented exactly.      *)
(***************************************************************************)
Limb == 100000
U32MaxHi == 42949
U32MaxLo == 67295

U32Zero == [hi |-> 0, lo |-> 0]

ParseOk(v) == [ok |-> TRUE, val |-> v, err |-> "none"]
ParseErr(kind) == [ok |-> FALSE, val |-> U32Zero, err |-> kind]

RECURSIVE AccumulateU16(_, _)
\* the digit loop with the range of a 16-bit id
AccumulateU16(acc, ds) ==
    IF ds = <<>> THEN ParseOk(acc)
    ELSE IF ~IsDigit(Head(ds)) THEN ParseErr("InvalidDigit")
    ELSE LET lo10 == acc.lo * 10 + DigitVal(Head(ds))
         IN  IF lo10 > 65535 THEN ParseErr("PosOverflow")
             ELSE AccumulateU16([hi |-> 0, lo |-> lo10], Tail(ds))

RECURSIVE Accumulate(_, _)
\* the digit loop of u32::from_str: for each character,
\* result = result.checked_mul(10)?.checked_add(digit)?
Accumulate(acc, ds) ==
    IF ds = <<>> THEN ParseOk(acc)
    ELSE IF ~IsDigit(Head(ds)) THEN ParseErr("InvalidDigit")
    ELSE LET lo10 == acc.lo * 10 + DigitVal(Head(ds))
             nlo == lo10 % Limb
             nhi == acc.hi * 10 + (lo10 \div Limb)
         IN  IF nhi > U32MaxHi \/ (nhi = U32MaxHi /\ nlo > U32MaxLo)
             THEN ParseErr("PosOverflow")
             ELSE Accumulate([hi |-> nhi, lo |-> nlo], Tail(ds))

\* <u32 as FromStr>::from_str, which the Path<(u32,)> extractor applies to
\* the segment: empty is an error, a lone sign is an error, one leading '+'
\* is skipped, '-' is no digit of an unsigned type
ParseU32(src) ==
    IF src = <<>> THEN ParseErr("Empty")
    ELSE IF Len(src) = 1 /\ Head(src) \in {"+", "-"} THEN ParseErr("InvalidDigit")
    ELSE IF Head(src) = "+" THEN Accumulate(U32Zero, Tail(src))
    ELSE Accumulate(U32Zero, src)

RECURSIVE NatDigits(_)
\* decimal numeral of a natural number, no leading zeros
NatDigits(n) ==
    IF n < 10 THEN Digits[n + 1]
    ELSE NatDigits(n \div 10) \o Digits[(n % 10) + 1]

\* the five digits of a low limb, zero padded
PadLimb(n) ==
    Digits[((n \div 10000) % 10) + 1] \o Digits[((n \div 1000) % 10) + 1]
        \o Digits[((n \div 100) % 10) + 1] \o Digits[((n \div 10) % 10) + 1]
        \o Digits[(n % 10) + 1]

\* <u32 as Display>::fmt, the "{}" of format!
FormatU32(v) ==
    IF v.hi = 0 THEN NatDigits(v.lo) ELSE NatDigits(v.hi) \o PadLimb(v.lo)

(***************************************************************************)
(* JSON.  A string literal on the wire is a sequence of tokens: a plain    *)
(* character, or an escape sequence.  Decoding maps tokens to characters,  *)
(* serialising maps characters to tokens.                                  *)
(***************************************************************************)
\* serde_json reading a string literal: one token to the character it denotes
UnescapeToken(t) ==
    CASE t = "\\\"" -> "\""
      [] t = "\\\\" -> "\\"
      [] t = "\\n" -> "\n"
      [] OTHER -> t

Unescape(lit) == [i \in 1..Len(lit) |-> UnescapeToken(lit[i])]

\* serde_json writing a string: the token written for one character
EscapeChar(c) ==
    CASE c = "\"" -> "\\\""
      [] c = "\\" -> "\\\\"
      [] c = "\n" -> "\\n"
      [] OTHER -> c

\* serde_json::to_string of a String
JsonString(text) ==
    "\"" \o Join([i \in 1..Len(text) |-> EscapeChar(text[i])]) \o "\""

\* JSON values inside a body
Absent == [t |-> "absent", lit |-> <<>>]
JNull == [t |-> "null", lit |-> <<>>]
JNumber == [t |-> "number", lit |-> <<>>]
JString(lit) == [t |-> "string", lit |-> lit]

\* request bodies
NoBody == [kind |-> "empty", name |-> Absent, age |-> Absent, elems |-> <<>>]
InvalidBody == [kind |-> "invalid", name |-> Absent, age |-> Absent, elems |-> <<>>]
ObjectBody(n, a) == [kind |-> "object", name |-> n, age |-> a, elems |-> <<>>]
ArrayBody(es) == [kind |-> "array", name |-> Absent, age |-> Absent, elems |-> es]
ScalarBody(v) == [kind |-> "scalar", name |-> Absent, age |-> Absent, elems |-> <<v>>]

DecodeOk(n) == [ok |-> TRUE, name |-> n, err |-> "none"]
DecodeErr(kind) == [ok |-> FALSE, name |-> <<>>, err |-> kind]

\* Info with a defaulted name: a missing field decodes to the empty text
DeserializeInfoDefault(body) ==
    CASE body.kind = "object" ->
            IF body.name.t = "absent" THEN DecodeOk(<<>>)
            ELSE IF body.name.t # "string" THEN DecodeErr("invalid type")
            ELSE DecodeOk(Unescape(body.name.lit))
      [] body.kind = "array" ->
            IF Len(body.elems) = 0 THEN DecodeOk(<<>>)
            ELSE IF body.elems[1].t # "string" THEN DecodeErr("invalid type")
            ELSE IF Len(body.elems) > 1 THEN DecodeErr("trailing characters")
            ELSE DecodeOk(Unescape(body.elems[1].lit))
      [] body.kind = "scalar" -> DecodeErr("invalid type")
      [] OTHER -> DecodeErr("syntax")

\* #[derive(Deserialize)] struct Info { name: String } read by serde_json:
\* a map needs a string under the key name and ignores other keys; a
\* sequence is read positionally and must hold exactly the one field
DeserializeInfo(body) ==
    CASE body.kind = "object" ->
            IF body.name.t = "absent" THEN DecodeErr("missing field")
            ELSE IF body.name.t # "string" THEN DecodeErr("invalid type")
            ELSE DecodeOk(Unescape(body.name.lit))
      [] body.kind = "array" ->
            IF Len(body.elems) = 0 THEN DecodeErr("invalid length")
            ELSE IF body.elems[1].t # "string" THEN DecodeErr("invalid type")
            ELSE IF Len(body.elems) > 1 THEN DecodeErr("trailing characters")
            ELSE DecodeOk(Unescape(body.elems[1].lit))
      [] body.kind = "scalar" -> DecodeErr("invalid type")
      [] OTHER -> DecodeErr("syntax")

(***************************************************************************)
(* Responses.                                                              *)
(***************************************************************************)
StatusOk == 200
StatusBadRequest == 400
StatusNotFound == 404

IsClientError(status) == status >= 400 /\ status <= 499

NoResponse == [status |-> 0, ctype |-> "", body |-> ""]

\* HttpResponse::Ok().body(text)
OkBody(text) == [status |-> StatusOk, ctype |-> "text/plain", body |-> text]

\* HttpResponse::Ok().json(serialised value)
OkJson(json) == [status |-> StatusOk, ctype |-> "application/json", body |-> json]

\* what the framework answers on its own: the status and the cause
ErrorResponse(status, cause) == [status |-> status, ctype |-> "text/plain", body |-> cause]

(***************************************************************************)
(* The handlers.                                                           *)
(***************************************************************************)
\* the closure registered for "/"
Index == OkBody("Hello World!")

Person == [name |-> <<"G", "o", "o", "d", "!">>, age |-> <<"2", "1">>]

\* Person serialised with age as a number
SerializePersonNumericAge(p) ==
    "{" \o "\"name\":" \o JsonString(p.name) \o "," \o "\"age\":" \o Join(p.age) \o "}"

\* #[derive(Serialize)] struct Person { name, age }: fields in declaration order
SerializePerson(p) ==
    "{" \o "\"name\":" \o JsonString(p.name) \o "," \o "\"age\":" \o JsonString(p.age) \o "}"

get_json_data == OkJson(SerializePerson(Person))

ReceivedName == <<"R", "e", "c", "e", "i", "v", "e", "d", " ", "n", "a", "m", "e", ":", " ">>

\* the formatted text sent with .body(..) instead of .json(..)
post_json_body(info) == OkBody(Join(ReceivedName \o info.name))

\* format!("Received name: {}", info.name), then .json(..)
post_json(info) == OkJson(JsonString(ReceivedName \o info.name))

\* format!("User ID is {}", user_id.0), then .body(..)
get_user(path) == OkBody("User ID is " \o FormatU32(path.user_id))

(***************************************************************************)
(* Requests.                                                               *)
(***************************************************************************)
RootPath == [res |-> "", hasId |-> FALSE, id |-> <<>>]
UsersPath == [res |-> "users", hasId |-> FALSE, id |-> <<>>]
UserPath(seg) == [res |-> "users", hasId |-> TRUE, id |-> seg]
OtherPath == [res |-> "posts", hasId |-> FALSE, id |-> <<>>]

Request(m, p, q, c, b) == [method |-> m, path |-> p, query |-> q, ctype |-> c, body |-> b]

SegAlphabet == {"0", "7", "+", "a"}

U32MaxDigits == <<"4", "2", "9", "4", "9", "6", "7", "2", "9", "5">>

\* segments around the top of the 32-bit range
BoundarySegs ==
    { U32MaxDigits,
      <<"4", "2", "9", "4", "9", "6", "7", "2", "9", "6">>,
      <<"0">> \o U32MaxDigits,
      <<"+">> \o U32MaxDigits,
      <<"9", "9", "9", "9", "9", "9", "9", "9", "9", "9", "9">>,
      <<"-", "7">> }

Segments == (UNION {[1..n -> SegAlphabet] : n \in 0..MaxSegLen}) \cup BoundarySegs

NameTokens == {"a", "b", "\\\"", "\\n"}

Literals == UNION {[1..n -> NameTokens] : n \in 0..MaxNameLen}

ArrayElems == {JString(<<>>), JString(<<"a">>), JNumber}

Bodies ==
    {NoBody, InvalidBody, ScalarBody(JString(<<"a">>)), ScalarBody(JNumber)}
        \cup {ObjectBody(n, a) : n \in {Absent, JNull, JNumber} \cup {JString(l) : l \in Literals},
                                 a \in {Absent, JNumber}}
        \cup {ArrayBody(es) : es \in UNION {[1..n -> ArrayElems] : n \in 0..MaxArrayLen}}

Queries == {"", "x=1"}
ContentTypes == {"application/json", "text/plain"}

\* every request of the sequential specification
Requests ==
    {Request("GET", p, q, c, NoBody) :
        p \in {RootPath, UsersPath, OtherPath} \cup {UserPath(seg) : seg \in Segments},
        q \in Queries, c \in ContentTypes}
        \cup {Request("POST", p, q, c, b) :
                p \in {RootPath, UsersPath}, q \in Queries, c \in ContentTypes, b \in Bodies}

\* the requests served concurrently
SampleRequests ==
    { Request("GET", RootPath, "x=1", "text/plain", NoBody),
      Request("GET", UsersPath, "", "text/plain", NoBody),
      Request("GET", UserPath(<<"7">>), "", "text/plain", NoBody),
      Request("GET", UserPath(<<"0", "0", "7">>), "", "text/plain", NoBody),
      Request("GET", UserPath(<<"4", "2">>), "", "text/plain", NoBody),
      Request("GET", UserPath(<<"a">>), "", "text/plain", NoBody),
      Request("GET", OtherPath, "", "text/plain", NoBody),
      Request("POST", UsersPath, "", "application/json", ObjectBody(JString(<<"a">>), Absent)),
      Request("POST", UsersPath, "", "application/json", ObjectBody(JString(<<"b">>), JNumber)),
      Request("POST", UsersPath, "", "application/json", ObjectBody(Absent, JNumber)),
      Request("POST", UsersPath, "", "text/plain", InvalidBody) }

\* requests that fail to decode, and two that decode, served concurrently
RejectSamples ==
    { Request("GET", UserPath(<<"a">>), "", "text/plain", NoBody),
      Request("GET", UserPath(<<"7">>), "", "text/plain", NoBody),
      Request("POST", UsersPath, "", "application/json", ObjectBody(Absent, JNumber)),
      Request("POST", UsersPath, "", "text/plain", InvalidBody),
      Request("POST", UsersPath, "", "application/json", ObjectBody(JString(<<"a">>), Absent)) }

NoRequest == Request("", RootPath, "", "", NoBody)

(***************************************************************************)
(* Routing and extraction.                                                 *)
(***************************************************************************)
\* routes that match the whole URI, query string included
MatchRouteWithQuery(r) ==
    CASE r.query # "" -> "none"
      [] r.method = "GET" /\ r.path = RootPath -> "index"
      [] r.method = "GET" /\ r.path = UsersPath -> "get_json_data"
      [] r.method = "GET" /\ r.path.res = "users" /\ r.path.hasId /\ r.path.id # <<>> -> "get_user"
      [] r.method = "POST" /\ r.path = UsersPath -> "post_json"
      [] OTHER -> "none"

\* the four .route(..) registrations: method guard and path pattern; the
\* query string and the headers take no part; {id} matches a non-empty segment
MatchRoute(r) ==
    CASE r.method = "GET" /\ r.path = RootPath -> "index"
      [] r.method = "GET" /\ r.path = UsersPath -> "get_json_data"
      [] r.method = "GET" /\ r.path.res = "users" /\ r.path.hasId /\ r.path.id # <<>> -> "get_user"
      [] r.method = "POST" /\ r.path = UsersPath -> "post_json"
      [] OTHER -> "none"

NoArgs == [user_id |-> U32Zero, name |-> <<>>]

Extracted(args) == [ok |-> TRUE, args |-> args, resp |-> NoResponse]
Rejected(resp) == [ok |-> FALSE, args |-> NoArgs, resp |-> resp]

\* a path extractor that falls back to id 0 when the segment does not parse
FromRequestDefaultId(rt, r) ==
    CASE rt = "get_user" ->
            LET p == ParseU32(r.path.id)
            IN  Extracted([user_id |-> p.val, name |-> <<>>])
      [] rt = "post_json" ->
            IF r.ctype # "application/json"
            THEN Rejected(ErrorResponse(StatusBadRequest, "content type"))
            ELSE LET d == DeserializeInfo(r.body)
                 IN  IF d.ok THEN Extracted([user_id |-> U32Zero, name |-> d.name])
                     ELSE Rejected(ErrorResponse(StatusBadRequest, d.err))
      [] OTHER -> Extracted(NoArgs)

\* the extractors of the matched handler's parameters, run before its body:
\* web::Path<(u32,)> answers 404 when the segment does not parse,
\* web::Json<Info> answers 400 when the content type is not JSON or the
\* body does not deserialise
FromRequest(rt, r) ==
    CASE rt = "get_user" ->
            LET p == ParseU32(r.path.id)
            IN  IF p.ok THEN Extracted([user_id |-> p.val, name |-> <<>>])
                ELSE Rejected(ErrorResponse(StatusNotFound, p.err))
      [] rt = "post_json" ->
            IF r.ctype # "application/json"
            THEN Rejected(ErrorResponse(StatusBadRequest, "content type"))
            ELSE LET d == DeserializeInfo(r.body)
                 IN  IF d.ok THEN Extracted([user_id |-> U32Zero, name |-> d.name])
                     ELSE Rejected(ErrorResponse(StatusBadRequest, d.err))
      [] OTHER -> Extracted(NoArgs)

\* the body of the matched handler
CallHandler(rt, args) ==
    CASE rt = "index" -> Index
      [] rt = "get_json_data" -> get_json_data
      [] rt = "get_user" -> get_user(args)
      [] rt = "post_json" -> post_json(args)
      [] OTHER -> NoResponse

(***************************************************************************)
(* The server.                                                             *)
(***************************************************************************)
VARIABLES
    stage,      \* per connection: idle, received, matched, extracted, ready, responded, logged
    req,        \* per connection: the request being served
    route,      \* per connection: the handler the router matched
    args,       \* per connection: what the extractors produced for the handler
    resp,       \* per connection: the response
    ran,        \* per connection: how often a handler body ran for the request
    sent,       \* per connection: how many responses the request was sent
    emitted,    \* per connection: the record Logger handed to the log facade
    accessLog   \* the lines a log backend wrote

vars == <<stage, req, route, args, resp, ran, sent, emitted, accessLog>>

Conns == 1..MaxInFlight

NoLine == [method |-> "", path |-> RootPath, query |-> "", status |-> 0]

\* Logger::default() format: the request line and the response status
LogLine(r, rs) == [method |-> r.method, path |-> r.path, query |-> r.query, status |-> rs.status]

\* main installs no log backend (there is no logger initialisation before
\* HttpServer::new), so the log facade has the no-op logger
LoggerInstalled == FALSE

\* log::info!: the installed backend writes the record, the no-op logger drops it
LogInfo(log, line) == IF LoggerInstalled THEN Append(log, line) ELSE log

\* the handler reading the arguments most recently extracted on any connection
HandlerArgShared(c) ==
    IF \E d \in Conns \ {c} : stage[d] = "extracted"
    THEN args[CHOOSE d \in Conns \ {c} : stage[d] = "extracted"]
    ELSE args[c]

\* the value bound to the handler's parameter: the one extracted from its own request
HandlerArg(c) == args[c]

Init ==
    /\ stage = [c \in Conns |-> "idle"]
    /\ req = [c \in Conns |-> NoRequest]
    /\ route = [c \in Conns |-> "none"]
    /\ args = [c \in Conns |-> NoArgs]
    /\ resp = [c \in Conns |-> NoResponse]
    /\ ran = [c \in Conns |-> 0]
    /\ sent = [c \in Conns |-> 0]
    /\ emitted = [c \in Conns |-> NoLine]
    /\ accessLog = <<>>

\* a request arrives on an idle connection
Receive(c, r) ==
    /\ stage[c] = "idle"
    /\ stage' = [stage EXCEPT ![c] = "received"]
    /\ req' = [req EXCEPT ![c] = r]
    /\ UNCHANGED <<route, args, resp, ran, sent, emitted, accessLog>>

\* the router picks the route; no route is the default 404
Dispatch(c) ==
    /\ stage[c] = "received"
    /\ LET rt == MatchRoute(req[c])
       IN  IF rt = "none"
           THEN /\ resp' = [resp EXCEPT ![c] = ErrorResponse(StatusNotFound, "")]
                /\ stage' = [stage EXCEPT ![c] = "ready"]
                /\ UNCHANGED route
           ELSE /\ route' = [route EXCEPT ![c] = rt]
                /\ stage' = [stage EXCEPT ![c] = "matched"]
                /\ UNCHANGED resp
    /\ UNCHANGED <<req, args, ran, sent, emitted, accessLog>>

\* extraction that calls the handler even when an extractor failed
ExtractThenCall(c) ==
    /\ stage[c] = "matched"
    /\ LET e == FromRequest(route[c], req[c])
       IN  /\ args' = [args EXCEPT ![c] = e.args]
           /\ stage' = [stage EXCEPT ![c] = "extracted"]
           /\ UNCHANGED resp
    /\ UNCHANGED <<req, route, ran, sent, emitted, accessLog>>

\* the extractors run; a failure is answered without calling the handler
Extract(c) ==
    /\ stage[c] = "matched"
    /\ LET e == FromRequest(route[c], req[c])
       IN  IF e.ok
           THEN /\ args' = [args EXCEPT ![c] = e.args]
                /\ stage' = [stage EXCEPT ![c] = "extracted"]
                /\ UNCHANGED resp
           ELSE /\ resp' = [resp EXCEPT ![c] = e.resp]
                /\ stage' = [stage EXCEPT ![c] = "ready"]
                /\ UNCHANGED args
    /\ UNCHANGED <<req, route, ran, sent, emitted, accessLog>>

\* get_user echoing the matched segment as sent instead of the parsed id
HandleEcho(c) ==
    /\ stage[c] = "extracted"
    /\ ran' = [ran EXCEPT ![c] = @ + 1]
    /\ resp' = [resp EXCEPT ![c] =
                    IF route[c] = "get_user"
                    THEN OkBody("User ID is " \o Join(req[c].path.id))
                    ELSE CallHandler(route[c], HandlerArg(c))]
    /\ stage' = [stage EXCEPT ![c] = "ready"]
    /\ UNCHANGED <<req, route, args, sent, emitted, accessLog>>

\* the handler body runs on the extracted arguments
Handle(c) ==
    /\ stage[c] = "extracted"
    /\ ran' = [ran EXCEPT ![c] = @ + 1]
    /\ resp' = [resp EXCEPT ![c] = CallHandler(route[c], HandlerArg(c))]
    /\ stage' = [stage EXCEPT ![c] = "ready"]
    /\ UNCHANGED <<req, route, args, sent, emitted, accessLog>>

\* the response is written back
Respond(c) ==
    /\ stage[c] = "ready"
    /\ sent' = [sent EXCEPT ![c] = @ + 1]
    /\ stage' = [stage EXCEPT ![c] = "responded"]
    /\ UNCHANGED <<req, route, args, resp, ran, emitted, accessLog>>

\* the Logger middleware logs the finished request
LogRequest(c) ==
    /\ stage[c] = "responded"
    /\ emitted' = [emitted EXCEPT ![c] = LogLine(req[c], resp[c])]
    /\ accessLog' = LogInfo(accessLog, LogLine(req[c], resp[c]))
    /\ stage' = [stage EXCEPT ![c] = "logged"]
    /\ UNCHANGED <<req, route, args, resp, ran, sent>>

\* the request is over; nothing of it is kept
Complete(c) ==
    /\ stage[c] = "logged"
    /\ stage' = [stage EXCEPT ![c] = "idle"]
    /\ req' = [req EXCEPT ![c] = NoRequest]
    /\ route' = [route EXCEPT ![c] = "none"]
    /\ args' = [args EXCEPT ![c] = NoArgs]
    /\ resp' = [resp EXCEPT ![c] = NoResponse]
    /\ ran' = [ran EXCEPT ![c] = 0]
    /\ sent' = [sent EXCEPT ![c] = 0]
    /\ emitted' = [emitted EXCEPT ![c] = NoLine]
    /\ UNCHANGED accessLog

\* the worker connections serve the sample requests concurrently
Next ==
    \/ \E c \in Conns, r \in SampleRequests : Receive(c, r)
    \/ \E c \in Conns : Dispatch(c)
    \/ \E c \in Conns : Extract(c)
    \/ \E c \in Conns : Handle(c)
    \/ \E c \in Conns : Respond(c)
    \/ \E c \in Conns : LogRequest(c)
    \/ \E c \in Conns : Complete(c)

Spec == Init /\ [][Next]_vars

\* one connection serves every request of Requests, one after the other
SeqNext ==
    \/ \E r \in Requests : Receive(1, r)
    \/ Dispatch(1)
    \/ Extract(1)
    \/ Handle(1)
    \/ Respond(1)
    \/ LogRequest(1)
    \/ Complete(1)

SeqSpec == Init /\ [][SeqNext]_vars

\* the actix runtime polls every task that can make progress: a request
\* that has a step to take takes it
Fairness ==
    \A c \in Conns :
        WF_vars(Dispatch(c) \/ Extract(c) \/ Handle(c) \/ Respond(c) \/ LogRequest(c) \/ Complete(c))

\* the worker connections serve RejectSamples concurrently
FairNext ==
    \/ \E c \in Conns, r \in RejectSamples : Receive(c, r)
    \/ \E c \in Conns : Dispatch(c)
    \/ \E c \in Conns : Extract(c)
    \/ \E c \in Conns : Handle(c)
    \/ \E c \in Conns : Respond(c)
    \/ \E c \in Conns : LogRequest(c)
    \/ \E c \in Conns : Complete(c)

FairSpec == Init /\ [][FairNext]_vars /\ Fairness

(***************************************************************************)
(* Vocabulary of the properties.                                           *)
(***************************************************************************)
\* the response of the request on connection c is decided
Answered(c) == stage[c] \in {"ready", "responded", "logged"}

IsGetUser(r) == r.method = "GET" /\ r.path.res = "users" /\ r.path.hasId

IsPostUsers(r) == r.method = "POST" /\ r.path = UsersPath

\* a non-empty sequence of decimal digits
AllDigits(seg) == seg # <<>> /\ \A i \in 1..Len(seg) : IsDigit(seg[i])

\* decimal digits with an optional leading '+'
SignedDigits(seg) == seg # <<>> /\ Head(seg) = "+" /\ AllDigits(Tail(seg))

RECURSIVE Canonical(_)
\* a numeral without its leading zeros
Canonical(ds) == IF Len(ds) > 1 /\ Head(ds) = "0" THEN Canonical(Tail(ds)) ELSE ds

\* a <= b for canonical numerals
NumeralLE(a, b) ==
    \/ Len(a) < Len(b)
    \/ /\ Len(a) = Len(b)
       /\ \/ a = b
          \/ \E i \in 1..Len(a) :
                /\ \A j \in 1..(i - 1) : a[j] = b[j]
                /\ DigitVal(a[i]) < DigitVal(b[i])

\* the number a digit sequence denotes is at most 4294967295
FitsU32(seg) == NumeralLE(Canonical(seg), U32MaxDigits)

\* the digits of a segment without an optional '+'
Unsigned(seg) == IF seg # <<>> /\ Head(seg) = "+" THEN Tail(seg) ELSE seg

\* two segments denote the same number
SameNumber(a, b) ==
    /\ AllDigits(Unsigned(a))
    /\ AllDigits(Unsigned(b))
    /\ Canonical(Unsigned(a)) = Canonical(Unsigned(b))

\* a JSON string literal whose text needs no escaping
NeedsNoEscaping(lit) ==
    \A i \in 1..Len(lit) : UnescapeToken(lit[i]) = lit[i] /\ EscapeChar(lit[i]) = lit[i]

\* the body is not JSON at all
NotJson(body) == body.kind \in {"empty", "invalid"}

\* the body is JSON without a name field
LacksName(body) ==
    \/ body.kind \in {"array", "scalar"}
    \/ body.kind = "object" /\ body.name.t = "absent"

\* a JSON array holding exactly one string
OneStringArray(body) ==
    body.kind = "array" /\ Len(body.elems) = 1 /\ body.elems[1].t = "string"

\* the path parameter or the body of the request does not decode
DecodeFails(r) ==
    \/ IsGetUser(r) /\ r.path.id # <<>> /\ ~ParseU32(r.path.id).ok
    \/ IsPostUsers(r) /\ (r.ctype # "application/json" \/ ~DeserializeInfo(r.body).ok)

\* the response a request gets when it is served with nothing else in flight
ServedAlone(r) ==
    LET rt == MatchRoute(r)
        e == FromRequest(rt, r)
    IN  IF rt = "none" THEN ErrorResponse(StatusNotFound, "")
        ELSE IF e.ok THEN CallHandler(rt, e.args)
        ELSE e.resp

(***************************************************************************)
(* C1                                                                      *)
(***************************************************************************)
\* C1 as stated: for every unsigned integer n of any magnitude, written as
\* a digit sequence, GET /users/{n} is answered 200 with the plain-text
\* body "User ID is n"
C1_AnyMagnitude ==
    \A c \in Conns :
        (Answered(c) /\ IsGetUser(req[c]) /\ AllDigits(req[c].path.id)) =>
            /\ resp[c].status = 200
            /\ resp[c].ctype = "text/plain"
            /\ resp[c].body = "User ID is " \o Join(Canonical(req[c].path.id))

\* C1 amended: for every unsigned integer n of at most 4294967295, written
\* as a digit sequence, GET /users/{n} is answered 200 with the plain-text
\* body "User ID is n", n without leading zeros
C1_WithinU32 ==
    \A c \in Conns :
        (Answered(c) /\ IsGetUser(req[c]) /\ AllDigits(req[c].path.id)
            /\ FitsU32(req[c].path.id)) =>
            /\ resp[c].status = 200
            /\ resp[c].ctype = "text/plain"
            /\ resp[c].body = "User ID is " \o Join(Canonical(req[c].path.id))

\* the largest 32-bit id has been answered
C1_Witness ==
    \E c \in Conns :
        /\ stage[c] = "responded"
        /\ IsGetUser(req[c])
        /\ req[c].path.id = U32MaxDigits
        /\ resp[c].status = 200
        /\ resp[c].body = "User ID is 4294967295"

(***************************************************************************)
(* C2                                                                      *)
(***************************************************************************)
\* C2 as stated: for every segment that is not a sequence of digits,
\* GET /users/{segment} is answered with a client-error status, never 200
C2_NonNumericRejected ==
    \A c \in Conns :
        (Answered(c) /\ IsGetUser(req[c]) /\ ~AllDigits(req[c].path.id)) =>
            /\ IsClientError(resp[c].status)
            /\ resp[c].status # 200

\* C2 amended: for every segment that is neither a sequence of digits nor
\* a '+' followed by a sequence of digits, GET /users/{segment} is answered
\* with a client-error status, never 200
C2_UnparsableRejected ==
    \A c \in Conns :
        (Answered(c) /\ IsGetUser(req[c]) /\ ~AllDigits(req[c].path.id)
            /\ ~SignedDigits(req[c].path.id)) =>
            /\ IsClientError(resp[c].status)
            /\ resp[c].status # 200

\* a segment holding a letter has been rejected
C2_Witness ==
    \E c \in Conns :
        /\ stage[c] = "responded"
        /\ IsGetUser(req[c])
        /\ req[c].path.id = <<"7", "a">>
        /\ resp[c].status = 404

C4_NoNameRejected ==
    \A c \in Conns :
        (Answered(c) /\ IsPostUsers(req[c])
            /\ (LacksName(req[c].body) \/ NotJson(req[c].body))) =>
            /\ IsClientError(resp[c].status)
            /\ resp[c].status # 200

\* C4 amended: POST /users with a body that is not JSON, or that is JSON
\* without a name field and is not an array of exactly one string, is
\* answered with a client-error status, never 200
C4_NoNameRejectedButArray ==
    \A c \in Conns :
        (Answered(c) /\ IsPostUsers(req[c])
            /\ (LacksName(req[c].body) \/ NotJson(req[c].body))
            /\ ~OneStringArray(req[c].body)) =>
            /\ IsClientError(resp[c].status)
            /\ resp[c].status # 200

\* a JSON object without a name field has been rejected
C4_Witness ==
    \E c \in Conns :
        /\ stage[c] = "responded"
        /\ IsPostUsers(req[c])
        /\ req[c].ctype = "application/json"
        /\ req[c].body = ObjectBody(Absent, JNumber)
        /\ resp[c].status = 400

(***************************************************************************)
(* C5                                                                      *)
(***************************************************************************)
\* C5: under every interleaving of concurrent requests, each response is
\* the one its own request gets when served alone
C5_Independent ==
    \A c \in Conns : Answered(c) => resp[c] = ServedAlone(req[c])

\* two requests with different arguments were in flight together and both
\* are answered
C5_Witness ==
    \E c, d \in Conns :
        /\ c # d
        /\ stage[c] = "ready" /\ stage[d] = "ready"
        /\ ran[c] = 1 /\ ran[d] = 1
        /\ req[c].path = UserPath(<<"7">>)
        /\ req[d].path = UserPath(<<"4", "2">>)
        /\ resp[c].body = "User ID is 7"
        /\ resp[d].body = "User ID is 42"

(***************************************************************************)
(* C6                                                                      *)
(***************************************************************************)
\* C6: every GET /users is answered 200 with exactly the JSON object
\* {"name":"Good!","age":"21"}, whatever requests were served before
C6_FixedPerson ==
    \A c \in Conns :
        (Answered(c) /\ req[c].method = "GET" /\ req[c].path = UsersPath) =>
            /\ resp[c].status = 200
            /\ resp[c].ctype = "application/json"
            /\ resp[c].body = "{\"name\":\"Good!\",\"age\":\"21\"}"

\* a GET /users has been answered
C6_Witness ==
    \E c \in Conns :
        /\ stage[c] = "responded"
        /\ req[c].method = "GET" /\ req[c].path = UsersPath
        /\ ran[c] = 1
        /\ resp[c].status = 200

(***************************************************************************)
(* C7                                                                      *)
(***************************************************************************)
\* C7: every GET / is answered 200 with exactly the text Hello World!,
\* whatever its headers and query string
C7_HelloWorld ==
    \A c \in Conns :
        (Answered(c) /\ req[c].method = "GET" /\ req[c].path = RootPath) =>
            /\ resp[c].status = 200
            /\ resp[c].body = "Hello World!"

\* a GET / with a query string and a JSON content type has been answered
C7_Witness ==
    \E c \in Conns :
        /\ stage[c] = "responded"
        /\ req[c].method = "GET" /\ req[c].path = RootPath
        /\ req[c].query = "x=1" /\ req[c].ctype = "application/json"
        /\ resp[c].body = "Hello World!"

(***************************************************************************)
(* C8                                                                      *)
(***************************************************************************)
\* C8: every request that reached the service and passed the logging
\* middleware, answered by a handler or rejected, has its line in the
\* access log
C8_EveryRequestLogged ==
    \A c \in Conns :
        stage[c] = "logged" =>
            \E i \in 1..Len(accessLog) : accessLog[i] = LogLine(req[c], resp[c])

(***************************************************************************)
(* C9                                                                      *)
(***************************************************************************)
\* C9: a GET /users/{id} or POST /users whose path parameter or body does
\* not decode never has the handler body run, is answered with a client
\* error at most once, and is eventually answered exactly once
C9_RejectedBeforeHandler ==
    /\ [](\A c \in Conns :
            (stage[c] # "idle" /\ DecodeFails(req[c])) =>
                /\ ran[c] = 0
                /\ stage[c] # "extracted"
                /\ sent[c] <= 1
                /\ (stage[c] \in {"responded", "logged"} => sent[c] = 1)
                /\ (Answered(c) => IsClientError(resp[c].status)))
    /\ \A c \in Conns :
            (stage[c] = "received" /\ DecodeFails(req[c])) ~>
                (stage[c] = "responded" /\ sent[c] = 1 /\ ran[c] = 0)

\* a request whose body lacks the name field has been answered without
\* the handler having run
C9_Witness ==
    \E c \in Conns :
        /\ stage[c] = "responded"
        /\ IsPostUsers(req[c])
        /\ req[c].body = ObjectBody(Absent, JNumber)
        /\ ran[c] = 0
        /\ sent[c] = 1

(***************************************************************************)
(* C10                                                                     *)
(***************************************************************************)
\* C10: two successful GET /users/{id} whose segments denote the same
\* number get the identical body, built from the parsed value
C10_BodyFromParsedValue ==
    \A c, d \in Conns :
        (Answered(c) /\ Answered(d) /\ IsGetUser(req[c]) /\ IsGetUser(req[d])
            /\ resp[c].status = 200 /\ resp[d].status = 200
            /\ SameNumber(req[c].path.id, req[d].path.id)) =>
            resp[c].body = resp[d].body

\* the segments 7 and 007 both got the body User ID is 7, which is not
\* the segment 007 as sent
C10_Witness ==
    \E c, d \in Conns :
        /\ stage[c] = "responded" /\ stage[d] = "responded"
        /\ req[c].path = UserPath(<<"7">>)
        /\ req[d].path = UserPath(<<"0", "0", "7">>)
        /\ resp[c].body = "User ID is 7"
        /\ resp[d].body = "User ID is 7"
        /\ resp[d].body # "User ID is " \o Join(req[d].path.id)

====
